---- MODULE Spec2Model ----
(***************************************************************************)
(* A model of flint's plugin engine:                                       *)
(*   flint-core/src/util/plugin.rs    Plugin::run, Plugin::list,           *)
(*                                    get_plugin_map                       *)
(*   flint-core/src/app/generate.rs   GenerateWidget::setup and the task   *)
(*                                    closure it hands to the thread pool  *)
(*   flint-core/src/widgets/logs.rs   LOGS, get_logs, clear_logs, add_log  *)
(*                                                                         *)
(* A Rust panic (expect / unwrap on a failure) unwinds the thread it       *)
(* happens on: a pool worker's panic ends that task only (the threadpool   *)
(* crate replaces the worker), a panic on the main thread ends the process.*)
(***************************************************************************)
EXTENDS Integers, Sequences, FiniteSets, TLC

\* ------------------------------------------------------------------ bounds
NDirs == 2          \* bundle directories under the lint root
NThreads == 2       \* threads that call get_plugin_map (registry specification)
PoolSize == 2       \* ThreadPool::new(16), scaled down
MaxSegs == 2        \* segments given to one call of path.resolve

Dirs == 1..NDirs
Threads == 1..NThreads

\* ------------------------------------------------------------------ values
Ids == {"a", "b"}
UnknownId == "zz"                 \* a config section key that is no plugin's id
ConfigKeys == Ids \cup {UnknownId}
IdRank(id) == IF id = "a" THEN 1 ELSE IF id = "b" THEN 2 ELSE 3

Exts == {"e1", "e2"}
ExtRank(e) == IF e = "e1" THEN 1 ELSE 2
\* PluginDetails.extensions is a Vec<String>: order and repeats are kept.
ExtChoices == {<< >>, <<"e1">>, <<"e1", "e2">>, <<"e1", "e1">>}

Paths == {"x.conf", "y.conf"}
Contents == {"c1", "c2"}
NoFile == "absent"

None == "None"

\* ------------------------------------------------------------------ the log
\* logs.rs:15-23
LogKind == {"Info", "Success", "Error", "Warn", "Debug"}

\* (LogKind, String): the message is kept as <<text, argument>>.
Entry(kind, text, arg) == [kind |-> kind, message |-> <<text, arg>>]

\* An add_log that puts the entry in front.
AddLogFront(store, isInit, entry) == IF isInit THEN <<entry>> \o store ELSE store

\* logs.rs:44-48: add_log pushes only when the LOGS cell has been initialised
\* (LOGS.get() is Some), which only get_logs does.
AddLog(store, isInit, entry) == IF isInit THEN Append(store, entry) ELSE store

RECURSIVE AddLogs(_, _, _)
AddLogs(store, isInit, entries) ==
    IF entries = << >> THEN store
    ELSE AddLogs(AddLog(store, isInit, Head(entries)), isInit, Tail(entries))

\* ------------------------------------------------------------------ plugins
\* plugin.rs:14-27. version, author and category are carried by the code but
\* never read by it; they are left out of the descriptor.
PluginDetails(id, extensions) == [id |-> id, extensions |-> extensions]
Plugin(details, path) == [details |-> details, path |-> path]

RECURSIVE SeqLess(_, _)
\* Vec<String>'s derived Ord: lexicographic.
SeqLess(s, t) ==
    IF t = << >> THEN FALSE
    ELSE IF s = << >> THEN TRUE
    ELSE IF ExtRank(Head(s)) # ExtRank(Head(t)) THEN ExtRank(Head(s)) < ExtRank(Head(t))
    ELSE SeqLess(Tail(s), Tail(t))

\* plugin.rs:14,23: #[derive(Ord)] compares the fields in declaration order:
\* details (id, extensions, ...) and then path.
PluginLess(p, q) ==
    \/ IdRank(p.details.id) < IdRank(q.details.id)
    \/ /\ p.details.id = q.details.id
       /\ \/ SeqLess(p.details.extensions, q.details.extensions)
          \/ /\ p.details.extensions = q.details.extensions
             /\ p.path < q.path

RECURSIVE SortedSeq(_)
\* The iteration order of a BTreeSet<Plugin>.
SortedSeq(S) ==
    IF S = {} THEN << >>
    ELSE LET m == CHOOSE p \in S : \A q \in S \ {p} : PluginLess(p, q)
         IN <<m>> \o SortedSeq(S \ {m})

\* ------------------------------------------------------------------ discovery
\* What one entry of the lint directory holds (the input of Plugin::list):
\*   entryErr    the directory entry cannot be read            (plugin.rs:146)
\*   unreadable  details.lua cannot be read                    (plugin.rs:158)
\*   execErr     details.lua fails to load/execute             (plugin.rs:174)
\*   noDetails   details.lua executes but defines no Details
\*   callErr     Details() raises an error
\*   badRecord   Details() returns a value that is no PluginDetails
\*   ok          Details() returns the descriptor (id, extensions)
DetailKinds == {"entryErr", "unreadable", "execErr", "noDetails", "callErr", "badRecord", "ok"}

DirEntry(kind, id, extensions) == [kind |-> kind, id |-> id, extensions |-> extensions]

DirEntries ==
    {DirEntry(k, "a", << >>) : k \in DetailKinds \ {"ok"}}
        \cup {DirEntry("ok", id, x) : id \in Ids, x \in ExtChoices}

\* The state of the lint directory itself.
LintDirStates == {"ok", "mkdirErr", "readErr"}

\* The global Details of a fresh interpreter: nil.
NilDetails == DirEntry("nil", "a", << >>)

ListResult(outcome, plugins, entries) ==
    [outcome |-> outcome, plugins |-> plugins, logs |-> entries]

RECURSIVE Scan(_, _, _, _, _)
\* plugin.rs:143-183: the filter_map over the entries, in directory order. All
\* metadata scripts run in the one interpreter created at plugin.rs:120, so the
\* global Details (luaDetails) set by one script is still there for the next.
\* outcome "panic": an unwrap at plugin.rs:169-171 failed.
Scan(d, i, luaDetails, acc, lg) ==
    IF i > Len(d) THEN ListResult("some", acc, lg)
    ELSE LET e == d[i] IN
      CASE e.kind = "entryErr" ->
             Scan(d, i + 1, luaDetails, acc,
                  Append(lg, Entry("Error", "Error reading directory entry", ToString(i))))
        [] e.kind = "unreadable" ->
             Scan(d, i + 1, luaDetails, acc,
                  Append(lg, Entry("Error", "Error reading file", ToString(i))))
        [] e.kind = "execErr" ->
             Scan(d, i + 1, luaDetails, acc,
                  Append(lg, Entry("Error", "Error loading lua file", ToString(i))))
        [] OTHER ->
             LET g == IF e.kind = "noDetails" THEN luaDetails ELSE e IN
             IF g.kind \in {"nil", "callErr", "badRecord"}
             THEN ListResult("panic", acc, lg)
             ELSE Scan(d, i + 1, g,
                       acc \cup {Plugin(PluginDetails(g.id, g.extensions), i)}, lg)

\* plugin.rs:119-184
List(d, lintDir) ==
    IF lintDir \in {"mkdirErr", "readErr"}
    THEN ListResult("none", {}, <<Entry("Error", "Failed to create lint directory", lintDir)>>)
    ELSE Scan(d, 1, NilDetails, {}, << >>)

\* An index that files each plugin under its first extension only.
BuildMapFirstOnly(plugins) ==
    LET used == {e \in Exts : \E p \in plugins :
                    p.details.extensions # << >> /\ Head(p.details.extensions) = e}
    IN [e \in used |-> {p \in plugins :
                    p.details.extensions # << >> /\ Head(p.details.extensions) = e}]

\* plugin.rs:190-198: the extension index built from the plugin set.
BuildMap(plugins) ==
    LET used == {e \in Exts : \E p \in plugins : \E k \in DOMAIN p.details.extensions :
                                  p.details.extensions[k] = e}
    IN [e \in used |-> {p \in plugins : \E k \in DOMAIN p.details.extensions :
                                  p.details.extensions[k] = e}]

\* A OnceLock cell: empty, or holding the value of its one completed
\* initialisation.
EmptyCell == [init |-> FALSE, val |-> None]
FullCell(v) == [init |-> TRUE, val |-> v]

\* A get_or_init that forgets the cell is set.
RunsClosureAlways(cell) == TRUE

\* plugin.rs:188-189: get_or_init runs its closure only on an empty cell, and
\* keeps the value of a cell that is already set.
RunsClosure(cell) == ~cell.init

GetOrInit(cell, v) == IF RunsClosure(cell) THEN FullCell(v) ELSE cell

\* ------------------------------------------------------------------ Plugin::run
\* What a bundle's two script files hold (the input of Plugin::run).
\*   a file is unreadable, fails to parse (nothing of it runs), or runs and
\*   defines some of the globals Validate and Generate;
\*   validate: what the global Validate does when called
\*   mutates:  whether Validate assigns to a field of the table it is given
\*   generate: what the global Generate does when called, and the table it returns
FileKinds == {"unreadable", "parseErr", "ok"}
Globals == {"Validate", "Generate"}
Files ==
    {[kind |-> k, defs |-> {}] : k \in {"unreadable", "parseErr"}}
        \cup {[kind |-> "ok", defs |-> g] : g \in SUBSET Globals}
ValidateKinds == {"callErr", "nonBool", "false", "true"}
GenerateKinds == {"callErr", "badResult", "ok"}
\* The HashMap<String, String> Generate returns: a set of (path, contents)
\* pairs with no path twice.
NoResult == {}
ResultChoices ==
    { NoResult,
      {<<"x.conf", "c1">>},
      {<<"x.conf", "c2">>},
      {<<"y.conf", "c2">>},
      {<<"x.conf", "c1">>, <<"y.conf", "c2">>} }

Scripts ==
    {[generateLua |-> g, validateLua |-> v, validate |-> vk, mutates |-> FALSE,
      generate |-> gk, result |-> r] :
        g \in Files, v \in Files, vk \in ValidateKinds,
        gk \in {"callErr", "badResult"}, r \in {NoResult}}
    \cup
    {[generateLua |-> g, validateLua |-> v, validate |-> vk, mutates |-> FALSE,
      generate |-> gk, result |-> r] :
        g \in Files, v \in Files, vk \in ValidateKinds,
        gk \in {"ok"}, r \in ResultChoices}
    \cup
    {[generateLua |-> g, validateLua |-> v, validate |-> "true", mutates |-> TRUE,
      generate |-> "ok", result |-> NoResult] :
        g \in Files, v \in Files}

\* The bundles the engine specification draws from: the two-file layout with
\* every behaviour of Validate and Generate, a bundle whose generate.lua
\* cannot be read and one whose validate.lua does not parse. Every way
\* Plugin::run ends (Ok with each result, Err, panic) is among them, and so
\* are a bundle whose generate.lua defines no Generate and one whose scripts
\* define no Validate. Their Validate leaves its table alone.
EngineScripts ==
    {s \in Scripts :
        \/ /\ s.generateLua = [kind |-> "ok", defs |-> {"Generate"}]
           /\ s.validateLua = [kind |-> "ok", defs |-> {"Validate"}]
           /\ ~s.mutates
        \/ /\ s.generateLua.kind = "unreadable"
           /\ s.validateLua = [kind |-> "ok", defs |-> {"Validate"}]
           /\ s.validate = "true" /\ s.generate = "callErr"
        \/ /\ s.generateLua = [kind |-> "ok", defs |-> {}]
           /\ s.validateLua = [kind |-> "ok", defs |-> {"Validate"}]
           /\ s.validate = "true" /\ s.generate = "callErr" /\ ~s.mutates
        \/ /\ s.generateLua = [kind |-> "ok", defs |-> {"Generate"}]
           /\ s.validateLua = [kind |-> "ok", defs |-> {}]
           /\ s.validate = "true" /\ s.generate = "callErr" /\ ~s.mutates
        \/ /\ s.generateLua = [kind |-> "ok", defs |-> {"Generate"}]
           /\ s.validateLua.kind = "parseErr"
           /\ s.validate = "true" /\ s.generate = "callErr"}

\* A Lua table made from a configuration section: a value for every field
\* name, Nil for a field the table does not have. The project's common
\* section is kept as one value.
Fields == {"opt", "common"}
Nil == "nil"
NoArg == [f \in Fields |-> Nil]

\* A table made from the section alone.
ConfigViewSectionOnly(c, id) == c.linters[id]

\* plugin.rs:33-49: the table handed to the scripts: a new table made from the
\* plugin's own section (lua.to_value), in which the field common is then set
\* to the project's common section.
ConfigView(c, id) ==
    [f \in Fields |-> IF f = "common" THEN c.common ELSE c.linters[id][f]]

\* The table after a Validate that assigns to it.
Mutated(view) == [view EXCEPT !["opt"] = "changed"]

\* What a call of Plugin::run did:
\*   outcome  "Ok" (with result), "Err" (with message) or "Panic" (with the
\*            expect/unwrap message; nothing is returned)
\*   events   what the call did with the bundle, in order:
\*            <<"load", file, "unreadable" | "parseErr" | "ok">> (ok: the
\*            file's top-level code ran), <<"call", function, what it gave>>
\*   validate, generate   what the call of Validate / Generate gave, "none" if
\*            it was not called
\*   validateArg, generateArg   the table the function was called with, as it
\*            was at the call (NoArg if it was not called)
RunResult(outcome, message, events, vret, gret, result, varg, garg) ==
    [outcome |-> outcome, message |-> message, events |-> events,
     validate |-> vret, generate |-> gret, result |-> result,
     validateArg |-> varg, generateArg |-> garg]

\* plugin.rs:90-98
RunGenerate(s, generateFn, view, ev, vret, varg) ==
    IF generateFn = "Error"
    THEN RunResult("Panic", "Error reading generate.lua", ev, vret, "none", NoResult, varg, NoArg)
    ELSE LET ev2 == Append(ev, <<"call", "Generate", s.generate>>) IN
         IF s.generate = "callErr"
         THEN RunResult("Panic", "error running generate function", ev2, vret, "callErr",
                        NoResult, varg, view)
         ELSE IF s.generate = "badResult"
         THEN RunResult("Panic", "unable to convert generation result to String",
                        ev2, vret, "badResult", NoResult, varg, view)
         ELSE RunResult("Ok", "", ev2, vret, "ok", s.result, varg, view)

\* plugin.rs:77-88, then the generate phase. Validate and Generate are called
\* with the same Lua table (plugin.rs:79, 92): what Validate assigned to it is
\* there when Generate is called.
RunValidate(s, generateFn, validateFn, view, ev) ==
    IF validateFn = "Error"
    THEN RunResult("Panic", "error reading validate.lua", ev, "none", "none", NoResult,
                   NoArg, NoArg)
    ELSE LET ev2 == Append(ev, <<"call", "Validate", s.validate>>) IN
         IF s.validate = "callErr"
         THEN RunResult("Panic", "error running validate function", ev2, "callErr", "none",
                        NoResult, view, NoArg)
         ELSE IF s.validate = "nonBool"
         THEN RunResult("Panic", "unable to convert validation result to boolean",
                        ev2, "nonBool", "none", NoResult, view, NoArg)
         ELSE IF s.validate = "false"
         THEN RunResult("Err", "Plugin config validation failed", ev2, "false", "none",
                        NoResult, view, NoArg)
         ELSE RunGenerate(s, generateFn, IF s.mutates THEN Mutated(view) ELSE view,
                          ev2, "true", view)

\* plugin.rs:64-75: validate.lua is read and run after generate.lua, in the
\* same interpreter (globals: what has been defined so far).
RunLoadValidate(s, generateFn, view, ev, globals) ==
    LET ev2 == Append(ev, <<"load", "validate.lua", s.validateLua.kind>>) IN
    IF s.validateLua.kind = "unreadable"
    THEN RunResult("Err", "Error reading plugin code", ev2, "none", "none", NoResult,
                   NoArg, NoArg)
    ELSE IF s.validateLua.kind = "parseErr"
    THEN RunValidate(s, generateFn, "Error", view, ev2)
    ELSE IF "Validate" \notin globals \cup s.validateLua.defs
         THEN RunResult("Panic", "unwrap: no global Validate", ev2, "none", "none", NoResult,
                        NoArg, NoArg)
         ELSE RunValidate(s, generateFn, "Ok", view, ev2)

\* plugin.rs:51-62; globals: those of the interpreter the run started with.
RunLoadGenerate(s, view, globals) ==
    LET ev == <<<<"load", "generate.lua", s.generateLua.kind>>>> IN
    IF s.generateLua.kind = "unreadable"
    THEN RunResult("Err", "Error reading plugin code", ev, "none", "none", NoResult,
                   NoArg, NoArg)
    ELSE IF s.generateLua.kind = "parseErr"
    THEN RunLoadValidate(s, "Error", view, ev, globals)
    ELSE IF "Generate" \notin globals \cup s.generateLua.defs
         THEN RunResult("Panic", "unwrap: no global Generate", ev, "none", "none", NoResult,
                        NoArg, NoArg)
         ELSE RunLoadValidate(s, "Ok", view, ev, globals \cup s.generateLua.defs)

\* plugin.rs:202-243: the globals add_helper_globals sets.
HelperGlobals == {"log", "to_json", "to_toml"}

\* A run that goes on in the interpreter of the runs before it.
SharedLua(left) == left \cup HelperGlobals

\* plugin.rs:31-32: the globals of the interpreter a run starts with, left
\* being the globals the interpreters of earlier runs ended with: Lua::new()
\* makes a new interpreter, which has the helper globals and nothing else.
NewLua(left) == HelperGlobals

\* plugin.rs:30-99
Run(plugin, c, s, left) ==
    IF plugin.details.id \notin DOMAIN c.linters
    THEN RunResult("Panic", "unable to find config for a plugin", << >>, "none", "none",
                   NoResult, NoArg, NoArg)
    ELSE RunLoadGenerate(s, ConfigView(c, plugin.details.id), NewLua(left))

\* The globals of a run's interpreter when the run ended: those it started
\* with and those of the script files whose code ran.
GlobalsAfter(s, r, left) ==
    NewLua(left)
        \cup (IF \E i \in DOMAIN r.events : r.events[i] = <<"load", "generate.lua", "ok">>
              THEN s.generateLua.defs ELSE {})
        \cup (IF \E i \in DOMAIN r.events : r.events[i] = <<"load", "validate.lua", "ok">>
              THEN s.validateLua.defs ELSE {})

\* ------------------------------------------------------------------ path.resolve
\* Paths and path segments are sequences of characters.
Cwd == <<"/", "w">>           \* get_flag!(current_dir)
HomeDir == <<"/", "h">>       \* UserDirs::new().home_dir()
Segments ==
    { << >>, <<"r">>, <<"/", "a">>, <<"~">>, <<"~", "/", "r">>, <<"~", "r">> }

\* Path::is_absolute on Unix: the path starts with the separator.
IsAbsolute(path) == path # << >> /\ path[1] = "/"

\* path.rs:29-31: starts_with("~") && len() > 1 && (len() == 1 || second
\* character is '/').
IsHomeRelative(path) ==
    /\ path # << >> /\ path[1] = "~"
    /\ Len(path) > 1
    /\ (Len(path) = 1 \/ path[2] = "/")

\* PathBuf::join: an absolute argument replaces the base; otherwise the
\* argument is put after the base and a separator (also when it is empty).
Join(base, path) ==
    IF IsAbsolute(path) THEN path
    ELSE IF base = << >> THEN path
    ELSE IF base[Len(base)] = "/" THEN base \o path
    ELSE base \o <<"/">> \o path

\* path.rs:22-56: one iteration of the loop over the segments.
ResolveSegment(acc, path, homeKnown) ==
    IF IsAbsolute(path) THEN [result |-> path, absolute |-> TRUE]
    ELSE IF IsHomeRelative(path)
    THEN IF homeKnown
         THEN [result |-> IF Len(path) > 1 THEN Join(HomeDir, SubSeq(path, 3, Len(path)))
                          ELSE HomeDir,
               absolute |-> TRUE]
         ELSE acc
    ELSE [result |-> Join(IF ~acc.absolute /\ acc.result = << >> THEN Cwd ELSE acc.result,
                          path),
          absolute |-> acc.absolute]

RECURSIVE ResolveLoop(_, _, _)
ResolveLoop(acc, paths, homeKnown) ==
    IF paths = << >> THEN acc
    ELSE ResolveLoop(ResolveSegment(acc, Head(paths), homeKnown), Tail(paths), homeKnown)

\* Path::canonicalize of a path that exists, in a file system without
\* symbolic links: the separator at the end goes.
Canonicalized(path) ==
    IF Len(path) > 1 /\ path[Len(path)] = "/" THEN SubSeq(path, 1, Len(path) - 1) ELSE path

\* path.rs:14-69. exists: whether the resulting path is there, so that
\* canonicalize succeeds; otherwise the path is returned as it was put together.
PathResolve(paths, homeKnown, exists) ==
    LET acc == ResolveLoop([result |-> << >>, absolute |-> FALSE], paths, homeKnown)
        result == IF acc.result = << >> THEN Cwd ELSE acc.result
    IN IF exists THEN Canonicalized(result) ELSE result

VARIABLES
    dirs,        \* the entries of the lint directory, in read_dir order
    lintDir,     \* the state of the lint directory
    cfg,         \* the parsed flint.toml: [linters: section key -> section, common]
    PLUGINS,     \* the PLUGINS cell
    PLUGIN_MAP,  \* the PLUGIN_MAP cell
    onceOwner,   \* the thread running PLUGIN_MAP's initialiser, or NoThread
    callers,     \* per thread: where it is in get_plugin_map, and what it got
    listRuns,    \* how many times Plugin::list has been run
    logs,        \* the vector inside LOGS
    logsInit,    \* whether the LOGS cell has been initialised
    setupLoop,   \* setup's for loop: whether it was entered, the plugins still to submit
    setupDone,   \* whether GenerateWidget::setup has returned
    tasks,       \* the closures given to the pool, in submission order
    fs,          \* the output files: path -> contents
    lastWriter,  \* per output file, the task whose write to it was the last
    crashed,     \* the main thread panicked: the process is gone
    workers,     \* the number of worker threads of the widget's thread pool
    addLogCalls, \* how many times add_log was called since the last clear_logs
    resolveCall  \* a call of the path.resolve helper: its inputs and what it returned

vars == <<dirs, lintDir, cfg, PLUGINS, PLUGIN_MAP, onceOwner, callers, listRuns,
          logs, logsInit, setupLoop, setupDone, tasks, fs, lastWriter, crashed, workers,
          addLogCalls, resolveCall>>

\* ------------------------------------------------------------------ get_plugin_map
\* plugin.rs:187-200: what the initialiser of PLUGIN_MAP does when it runs with
\* the cells as given. outcome "panic": Plugin::list() gave None or panicked,
\* the unwrap at plugin.rs:189 (or inside list) unwinds and both cells stay as
\* they were.
GetPluginMap(pcell, mcell, d, ld) ==
    IF ~RunsClosure(mcell)
    THEN [outcome |-> "ok", plugins |-> pcell, map |-> mcell, logs |-> << >>, listed |-> 0]
    ELSE IF ~RunsClosure(pcell)
    THEN [outcome |-> "ok", plugins |-> pcell,
          map |-> GetOrInit(mcell, BuildMap(pcell.val)), logs |-> << >>, listed |-> 0]
    ELSE LET r == List(d, ld) IN
         IF r.outcome = "some"
         THEN [outcome |-> "ok", plugins |-> GetOrInit(pcell, r.plugins),
               map |-> GetOrInit(mcell, BuildMap(r.plugins)), logs |-> r.logs, listed |-> 1]
         ELSE [outcome |-> "panic", plugins |-> pcell, map |-> mcell,
               logs |-> r.logs, listed |-> 1]

NoThread == 0

IdleCaller == [pc |-> "idle", ret |-> EmptyCell]

\* A thread calls get_plugin_map (plugin.rs:188): it returns the memoized map,
\* or becomes the initialiser when no other thread is, or waits for the thread
\* that is.
CallGetPluginMap(th) ==
    /\ ~crashed
    /\ callers[th].pc \in {"idle", "waiting", "returned"}
    /\ IF ~RunsClosure(PLUGIN_MAP)
       THEN /\ callers' = [callers EXCEPT ![th] = [pc |-> "returned", ret |-> PLUGIN_MAP]]
            /\ UNCHANGED onceOwner
       ELSE IF onceOwner = NoThread
       THEN /\ callers' = [callers EXCEPT ![th].pc = "initialising"]
            /\ onceOwner' = th
       ELSE /\ callers[th].pc = "idle"
            /\ callers' = [callers EXCEPT ![th].pc = "waiting"]
            /\ UNCHANGED onceOwner
    /\ UNCHANGED <<dirs, lintDir, cfg, PLUGINS, PLUGIN_MAP, listRuns, logs, logsInit,
                   setupLoop, setupDone, tasks, fs, lastWriter, crashed, workers, addLogCalls, resolveCall>>

\* The initialiser runs on the thread that won the cell (plugin.rs:188-199).
\* If it panics the thread unwinds and the cells stay empty.
RunInitialiser(th) ==
    /\ ~crashed
    /\ callers[th].pc = "initialising"
    /\ LET r == GetPluginMap(PLUGINS, PLUGIN_MAP, dirs, lintDir) IN
         /\ listRuns' = listRuns + r.listed
         /\ logs' = AddLogs(logs, logsInit, r.logs)
         /\ addLogCalls' = addLogCalls + Len(r.logs)
         /\ PLUGINS' = r.plugins
         /\ PLUGIN_MAP' = r.map
         /\ callers' = [callers EXCEPT ![th] =
                           IF r.outcome = "ok" THEN [pc |-> "returned", ret |-> r.map]
                           ELSE [pc |-> "panicked", ret |-> EmptyCell]]
    /\ onceOwner' = IF onceOwner = th THEN NoThread ELSE onceOwner
    /\ UNCHANGED <<dirs, lintDir, cfg, logsInit, setupLoop, setupDone, tasks, fs, lastWriter,
                   crashed, workers, resolveCall>>

\* logs.rs:30-36: get_logs (the widget's render) initialises the LOGS cell.
GetLogs ==
    /\ ~crashed
    /\ logsInit' = TRUE
    /\ UNCHANGED <<dirs, lintDir, cfg, PLUGINS, PLUGIN_MAP, onceOwner, callers, listRuns,
                   logs, setupLoop, setupDone, tasks, fs, lastWriter, crashed,
                   workers, addLogCalls, resolveCall>>

\* logs.rs:38-42: clear_logs empties the vector when the LOGS cell has been
\* initialised, and does nothing otherwise (there is no vector yet).
ClearLogs ==
    /\ ~crashed
    /\ logs' = IF logsInit THEN << >> ELSE logs
    /\ UNCHANGED <<dirs, lintDir, cfg, PLUGINS, PLUGIN_MAP, onceOwner, callers, listRuns,
                   logsInit, setupLoop, setupDone, tasks, fs, lastWriter, crashed, workers, resolveCall>>
    /\ addLogCalls' = 0

\* ------------------------------------------------------------------ the engine
NotRun == RunResult("NotRun", "", << >>, "none", "none", NoResult, NoArg, NoArg)

\* The two script files of a bundle, as Plugin::run found them.
BundleFiles(s) == [generateLua |-> s.generateLua, validateLua |-> s.validateLua]
NoFiles == [generateLua |-> [kind |-> "none", defs |-> {}],
            validateLua |-> [kind |-> "none", defs |-> {}]]

\* One closure given to the pool (generate.rs:46-63):
\*   st       queued, writing (run gave Ok), failed (run gave Err), done,
\*            panicked (the closure unwound)
\*   run      what Plugin::run did
\*   files    the bundle's script files when Plugin::run ran
\*   globals  the globals of the run's interpreter when Plugin::run ended
\*   pending  the pairs of the result not yet written
\*   written  the writes done, in order
\*   logged   what the closure's add_log did: "none" (not called), "pushed",
\*            "dropped"
NewTask(plugin) ==
    [plugin |-> plugin, st |-> "queued", run |-> NotRun, files |-> NoFiles, globals |-> {},
     pending |-> {}, written |-> << >>, logged |-> "none"]

\* A selection that makes up a plugin for every section key that has none.
SelectPluginsEveryKey(map, c) ==
    LET found == {p \in UNION {map[e] : e \in DOMAIN map} : p.details.id \in DOMAIN c.linters}
        made == {Plugin(PluginDetails(k, << >>), 0) :
                    k \in {k \in DOMAIN c.linters : \A p \in found : p.details.id # k}}
    IN SortedSeq(found \cup made)

\* generate.rs:33-40: the plugins of the index, without repeats, whose id is a
\* section key of the configuration, in the set's order.
SelectPlugins(map, c) ==
    SortedSeq({p \in UNION {map[e] : e \in DOMAIN map} : p.details.id \in DOMAIN c.linters})

NotEntered == [entered |-> FALSE, rest |-> << >>]

\* setup runs on the main thread while the pool's workers run the closures it
\* has handed over, so it is taken in steps: the selection, one step per
\* thread_pool.execute of the loop, the return.
\* generate.rs:29-40: self.plugins is set from the registry and the
\* configuration. A panic here (get_plugin_map) ends the process.
Setup ==
    /\ ~crashed
    /\ ~setupDone /\ ~setupLoop.entered
    /\ onceOwner = NoThread
    /\ LET r == GetPluginMap(PLUGINS, PLUGIN_MAP, dirs, lintDir) IN
         /\ listRuns' = listRuns + r.listed
         /\ logs' = AddLogs(logs, logsInit, r.logs)
         /\ addLogCalls' = addLogCalls + Len(r.logs)
         /\ PLUGINS' = r.plugins
         /\ PLUGIN_MAP' = r.map
         /\ crashed' = (r.outcome = "panic")
         /\ setupLoop' = IF r.outcome = "panic" THEN setupLoop
                         ELSE [entered |-> TRUE, rest |-> SelectPlugins(r.map.val, cfg)]
    /\ UNCHANGED <<dirs, lintDir, cfg, onceOwner, callers, logsInit, setupDone, tasks,
                   fs, lastWriter, workers, resolveCall>>

\* generate.rs:42-64: one iteration of the loop hands one closure to the pool.
SetupSubmit ==
    /\ ~crashed
    /\ setupLoop.entered /\ setupLoop.rest # << >>
    /\ tasks' = Append(tasks, NewTask(Head(setupLoop.rest)))
    /\ setupLoop' = [setupLoop EXCEPT !.rest = Tail(@)]
    /\ UNCHANGED <<dirs, lintDir, cfg, PLUGINS, PLUGIN_MAP, onceOwner, callers, listRuns,
                   logs, logsInit, setupDone, fs, lastWriter, crashed, workers, addLogCalls, resolveCall>>

\* A setup that joins the pool before it returns.
SetupMayReturnJoined(ts) == \A t \in DOMAIN ts : ts[t].st \in {"done", "panicked"}

\* generate.rs:64-66: after the loop setup returns Ok(()); it neither joins the
\* pool nor looks at the closures.
SetupMayReturn(ts) == TRUE

SetupReturn ==
    /\ ~crashed
    /\ ~setupDone
    /\ setupLoop.entered /\ setupLoop.rest = << >>
    /\ SetupMayReturn(tasks)
    /\ setupDone' = TRUE
    /\ UNCHANGED <<dirs, lintDir, cfg, PLUGINS, PLUGIN_MAP, onceOwner, callers, listRuns,
                   logs, logsInit, setupLoop, tasks, fs, lastWriter, crashed,
                   workers, addLogCalls, resolveCall>>

Running == {t \in DOMAIN tasks : tasks[t].st \in {"writing", "failed"}}

\* A pool that starts a closure whenever one is queued.
MayStartUnbounded(t) ==
    /\ tasks[t].st = "queued"
    /\ \A u \in DOMAIN tasks : u < t => tasks[u].st # "queued"

\* The pool takes the closures in submission order, on at most workers
\* worker threads.
MayStart(t) ==
    /\ tasks[t].st = "queued"
    /\ \A u \in DOMAIN tasks : u < t => tasks[u].st # "queued"
    /\ Cardinality(Running) < workers

\* generate.rs:47-48 and 59: where the closure is after plugin.run returned
\* (or unwound).
AfterRun(task, r) ==
    [task EXCEPT !.run = r,
                 !.st = CASE r.outcome = "Ok" -> "writing"
                          [] r.outcome = "Err" -> "failed"
                          [] OTHER -> "panicked",
                 !.pending = r.result]

\* generate.rs:47: a worker takes the closure and runs plugin.run; the bundle's
\* script files are whatever is on disk then.
TaskRun(t, bundles) ==
    /\ ~crashed
    /\ t \in DOMAIN tasks
    /\ MayStart(t)
    /\ \E s \in bundles :
          LET left == UNION {tasks[u].globals : u \in DOMAIN tasks}
              r == Run(tasks[t].plugin, cfg, s, left)
          IN tasks' = [tasks EXCEPT ![t] = [AfterRun(tasks[t], r)
                                               EXCEPT !.files = BundleFiles(s),
                                                      !.globals = GlobalsAfter(s, r, left)]]
    /\ UNCHANGED <<dirs, lintDir, cfg, PLUGINS, PLUGIN_MAP, onceOwner, callers, listRuns,
                   logs, logsInit, setupLoop, setupDone, fs, lastWriter, crashed,
                   workers, addLogCalls, resolveCall>>

NoTask == 0

\* A failed write that takes every closure of the pool down with it.
WriteFailedAll(ts, t) == [u \in DOMAIN ts |-> [ts[u] EXCEPT !.st = "panicked"]]

\* A failed write that is turned into a failure of the task, which is then
\* logged.
WriteFailedReported(ts, t) == [ts EXCEPT ![t].st = "failed"]

\* generate.rs:52: std::fs::write(...).unwrap() on an Err panics on the worker
\* thread that runs closure t: that closure unwinds, the others are not
\* touched.
WriteFailed(ts, t) == [ts EXCEPT ![t].st = "panicked"]

\* generate.rs:51-53: one std::fs::write of the loop; the HashMap gives the
\* pairs in any order. A failed write panics (unwrap) on the worker thread.
TaskWrite(t) ==
    /\ ~crashed
    /\ t \in DOMAIN tasks
    /\ tasks[t].st = "writing"
    /\ \E w \in tasks[t].pending : \E ok \in BOOLEAN :
          IF ok
          THEN /\ fs' = [fs EXCEPT ![w[1]] = w[2]]
               /\ lastWriter' = [lastWriter EXCEPT ![w[1]] = t]
               /\ tasks' = [tasks EXCEPT ![t].pending = @ \ {w},
                                         ![t].written = Append(@, w)]
          ELSE /\ fs' = fs
               /\ lastWriter' = lastWriter
               /\ tasks' = WriteFailed(tasks, t)
    /\ UNCHANGED <<dirs, lintDir, cfg, PLUGINS, PLUGIN_MAP, onceOwner, callers, listRuns,
                   logs, logsInit, setupLoop, setupDone, crashed, workers, addLogCalls, resolveCall>>

\* A closure that logs success without waiting for the loop to end.
LoopDoneEarly(task) == task.st = "writing"

\* generate.rs:51-54: add_log(Success) comes after the loop over the result.
LoopDone(task) == task.st = "writing" /\ task.pending = {}

SuccessEntry(id) == Entry("Success", "Generated config successfully", id)

\* generate.rs:54-57
TaskLogSuccess(t) ==
    /\ ~crashed
    /\ t \in DOMAIN tasks
    /\ LoopDone(tasks[t])
    /\ logs' = AddLog(logs, logsInit, SuccessEntry(tasks[t].plugin.details.id))
    /\ tasks' = [tasks EXCEPT ![t].st = "done",
                              ![t].logged = IF logsInit THEN "pushed" ELSE "dropped"]
    /\ UNCHANGED <<dirs, lintDir, cfg, PLUGINS, PLUGIN_MAP, onceOwner, callers, listRuns,
                   logsInit, setupLoop, setupDone, fs, lastWriter, crashed, workers, resolveCall>>
    /\ addLogCalls' = addLogCalls + 1

\* generate.rs:59-61
TaskLogError(t) ==
    /\ ~crashed
    /\ t \in DOMAIN tasks
    /\ tasks[t].st = "failed"
    /\ logs' = AddLog(logs, logsInit, Entry("Error", tasks[t].run.message, ""))
    /\ tasks' = [tasks EXCEPT ![t].st = "done",
                              ![t].logged = IF logsInit THEN "pushed" ELSE "dropped"]
    /\ UNCHANGED <<dirs, lintDir, cfg, PLUGINS, PLUGIN_MAP, onceOwner, callers, listRuns,
                   logsInit, setupLoop, setupDone, fs, lastWriter, crashed, workers, resolveCall>>
    /\ addLogCalls' = addLogCalls + 1

\* No call of path.resolve is going on.
NoCall == [paths |-> << >>, homeKnown |-> TRUE, exists |-> TRUE, done |-> TRUE, out |-> << >>]

\* path.rs:14-69: a script's call of path.resolve returns.
CallPathResolve ==
    /\ ~resolveCall.done
    /\ resolveCall' = [resolveCall EXCEPT
                          !.done = TRUE,
                          !.out = PathResolve(resolveCall.paths, resolveCall.homeKnown,
                                              resolveCall.exists)]
    /\ UNCHANGED <<dirs, lintDir, cfg, PLUGINS, PLUGIN_MAP, onceOwner, callers, listRuns,
                   logs, logsInit, setupLoop, setupDone, tasks, fs, lastWriter, crashed,
                   workers, addLogCalls>>

\* ------------------------------------------------------------------ specifications
\* flint.toml as read at generate.rs:30. The engine specification gives each
\* key its own section contents; the specification of Plugin::run varies the
\* sections (one of them has a field named common of its own) and the
\* project's common section.
Sections == {[opt |-> "o1", common |-> Nil], [opt |-> "o2", common |-> "own"]}
SectionOf(k) == IF k = "a" THEN [opt |-> "o1", common |-> Nil]
                ELSE [opt |-> "o2", common |-> "own"]
Configs ==
    {[linters |-> [k \in S |-> SectionOf(k)], common |-> "k1"] : S \in SUBSET ConfigKeys}
RunConfigs ==
    UNION {[linters : [S -> Sections], common : {"k1", "k2"}] : S \in SUBSET ConfigKeys}

\* The entries the engine specification draws the lint directory from: one of
\* each way an entry ends (skipped with a log entry, panic, plugin).
EngineEntries ==
    {DirEntry(k, "a", << >>) : k \in {"execErr", "noDetails"}}
        \cup {DirEntry("ok", id, x) : id \in Ids, x \in {<< >>, <<"e1">>, <<"e1", "e2">>}}

NoDirs == [d \in Dirs |-> DirEntry("execErr", "a", << >>)]

InitProcess ==
    /\ PLUGINS = EmptyCell
    /\ PLUGIN_MAP = EmptyCell
    /\ onceOwner = NoThread
    /\ callers = [th \in Threads |-> IdleCaller]
    /\ listRuns = 0
    /\ logs = << >>
    /\ logsInit = FALSE
    /\ setupLoop = NotEntered
    /\ fs = [p \in Paths |-> NoFile]
    /\ lastWriter = [p \in Paths |-> NoTask]
    /\ crashed = FALSE
    /\ addLogCalls = 0

\* The process after GenerateWidget::default(): nothing discovered, no task.
Init ==
    /\ InitProcess
    /\ lintDir \in LintDirStates
    /\ dirs \in IF lintDir = "ok" THEN [Dirs -> EngineEntries] ELSE {NoDirs}
    /\ cfg \in Configs
    /\ setupDone = FALSE
    /\ tasks = << >>
    /\ workers = PoolSize
    /\ resolveCall = NoCall

Next ==
    \/ Setup
    \/ SetupSubmit
    \/ SetupReturn
    \/ GetLogs
    \/ ClearLogs
    \/ \E t \in 1..NDirs : TaskRun(t, EngineScripts)
    \/ \E t \in 1..NDirs : TaskWrite(t)
    \/ \E t \in 1..NDirs : TaskLogSuccess(t)
    \/ \E t \in 1..NDirs : TaskLogError(t)

Spec == Init /\ [][Next]_vars

\* The engine with a pool of one worker up to PoolSize workers, over lint
\* directories of valid bundles that all have their section, so that there are
\* runs with more closures than workers. The main thread goes on through
\* setup, and the pool is fair to its closures: a closure that can take its
\* next step (be started, write a file, log) eventually takes it. Nothing
\* makes the UI call get_logs or clear_logs.
InitPool ==
    /\ InitProcess
    /\ lintDir = "ok"
    /\ dirs \in [Dirs -> {DirEntry("ok", id, <<"e1">>) : id \in Ids}]
    /\ cfg = [linters |-> [k \in ConfigKeys |-> SectionOf(k)], common |-> "k1"]
    /\ setupDone = FALSE
    /\ tasks = << >>
    /\ workers \in 1..PoolSize
    /\ resolveCall = NoCall

SpecPool ==
    /\ InitPool
    /\ [][Next]_vars
    /\ WF_vars(Setup) /\ WF_vars(SetupSubmit) /\ WF_vars(SetupReturn)
    /\ \A t \in 1..NDirs :
          /\ WF_vars(TaskRun(t, EngineScripts))
          /\ WF_vars(TaskWrite(t))
          /\ WF_vars(TaskLogSuccess(t))
          /\ WF_vars(TaskLogError(t))

\* get_plugin_map called from several threads, over every lint directory.
InitMap ==
    /\ InitProcess
    /\ lintDir \in LintDirStates
    /\ dirs \in IF lintDir = "ok" THEN [Dirs -> DirEntries] ELSE {NoDirs}
    /\ cfg = [linters |-> << >>, common |-> "k1"]
    /\ setupDone = TRUE
    /\ tasks = << >>
    /\ workers = PoolSize
    /\ resolveCall = NoCall

NextMap ==
    \/ GetLogs
    \/ \E th \in Threads : CallGetPluginMap(th)
    \/ \E th \in Threads : RunInitialiser(th)

SpecMap == InitMap /\ [][NextMap]_vars

\* Plugin::run inside one task closure, over every plugin, configuration and
\* bundle, also those setup never pairs.
InitRun ==
    /\ InitProcess
    /\ lintDir = "ok"
    /\ dirs = NoDirs
    /\ cfg \in RunConfigs
    /\ setupDone = TRUE
    /\ workers = PoolSize
    /\ resolveCall = NoCall
    /\ \E id \in Ids, x \in {<< >>, <<"e1">>} :
          tasks = <<NewTask(Plugin(PluginDetails(id, x), 1))>>

NextRun ==
    \/ GetLogs
    \/ \E t \in 1..NDirs : TaskRun(t, Scripts)
    \/ \E t \in 1..NDirs : TaskWrite(t)
    \/ \E t \in 1..NDirs : TaskLogSuccess(t)
    \/ \E t \in 1..NDirs : TaskLogError(t)

SpecRun == InitRun /\ [][NextRun]_vars

\* One call of path.resolve, over every list of up to MaxSegs segments, with
\* and without a home directory, with the resulting path there or not.
InitPath ==
    /\ InitProcess
    /\ lintDir = "ok"
    /\ dirs = NoDirs
    /\ cfg = [linters |-> << >>, common |-> "k1"]
    /\ setupDone = TRUE
    /\ tasks = << >>
    /\ workers = PoolSize
    /\ \E n \in 0..MaxSegs : \E ps \in [1..n -> Segments] :
       \E h \in BOOLEAN, x \in BOOLEAN :
          resolveCall = [paths |-> ps, homeKnown |-> h, exists |-> x,
                         done |-> FALSE, out |-> << >>]

NextPath == CallPathResolve

SpecPath == InitPath /\ [][NextPath]_vars


\* ------------------------------------------------------------------ properties
Called(task, fn) == \E i \in DOMAIN task.run.events :
                        task.run.events[i][1] = "call" /\ task.run.events[i][2] = fn

Terminal(task) == task.st \in {"done", "panicked"}

\* C1: a task whose Validate returned false, or whose Validate call failed,
\* ends with the Err outcome "validation failed", and never calls Generate.
C1_ValidationFailureIsErr ==
    \A t \in DOMAIN tasks :
        tasks[t].run.validate \in {"false", "callErr"} =>
            /\ tasks[t].run.outcome = "Err"
            /\ tasks[t].run.message = "Plugin config validation failed"
            /\ ~Called(tasks[t], "Generate")

\* C2: in every task, Generate is called only after Validate has been called,
\* and when the task's success entry is logged every pair of the result has
\* already been written (and nothing is written afterwards).
C2_ValidateThenGenerateThenWritesThenLog ==
    \A t \in DOMAIN tasks :
        /\ \A j \in DOMAIN tasks[t].run.events :
              (tasks[t].run.events[j][1] = "call" /\ tasks[t].run.events[j][2] = "Generate")
                  => \E i \in 1..(j - 1) :
                        tasks[t].run.events[i][1] = "call"
                            /\ tasks[t].run.events[i][2] = "Validate"
        /\ (tasks[t].logged # "none" /\ tasks[t].run.outcome = "Ok")
              => /\ tasks[t].pending = {}
                 /\ {tasks[t].written[k] : k \in DOMAIN tasks[t].written} = tasks[t].run.result
                 /\ Len(tasks[t].written) = Cardinality(tasks[t].run.result)

\* C2's case: two tasks have run Validate and Generate, one has written its
\* two files and logged success while the other is still writing.
C2_Witness ==
    \E t, u \in DOMAIN tasks :
        /\ t # u
        /\ tasks[t].logged = "pushed" /\ tasks[t].run.outcome = "Ok"
        /\ Len(tasks[t].written) = 2
        /\ tasks[u].st = "writing" /\ Len(tasks[u].written) = 1

\* C3: a task whose run succeeded has, when it ends, written every pair of the
\* result and appended exactly one Success entry naming its plugin's id.
C3_SuccessWritesAllAndLogsOnce ==
    \A t \in DOMAIN tasks :
        (tasks[t].run.outcome = "Ok" /\ Terminal(tasks[t])) =>
            /\ {tasks[t].written[k] : k \in DOMAIN tasks[t].written} = tasks[t].run.result
            /\ tasks[t].logged = "pushed"
            /\ \E i \in DOMAIN logs : logs[i] = SuccessEntry(tasks[t].plugin.details.id)

TaskErrorTexts == {"Error reading plugin code", "Plugin config validation failed"}

TerminalEntries ==
    {i \in DOMAIN logs :
        \/ logs[i].kind = "Success"
        \/ logs[i].kind = "Error" /\ logs[i].message[1] \in TaskErrorTexts}

DistinctOutputs ==
    \A t, u \in DOMAIN tasks :
        t # u => {w[1] : w \in tasks[t].run.result} \cap {w[1] : w \in tasks[u].run.result} = {}

\* C4: when the N tasks of a run with pairwise distinct output paths have all
\* ended, the log holds exactly N task Success or Error entries.
C4_OneTerminalEntryPerTask ==
    (setupDone /\ ~crashed /\ DistinctOutputs /\ \A t \in DOMAIN tasks : Terminal(tasks[t]))
        => Cardinality(TerminalEntries) = Len(tasks)

\* C5: a task whose run failed never unwinds (it is never left panicked): it
\* goes on to the error branch and ends having logged an error entry.
C5_FailuresAreCaughtAndLogged ==
    \A t \in DOMAIN tasks :
        tasks[t].run.outcome \in {"Err", "Panic"} =>
            /\ tasks[t].st \in {"failed", "done"}
            /\ tasks[t].st = "done" => tasks[t].logged # "none"

\* C6: run against a configuration without a section for the plugin's id gives
\* an Err outcome ("missing configuration"), and the task writes nothing.
C6_MissingConfigIsErr ==
    \A t \in DOMAIN tasks :
        (tasks[t].run.outcome # "NotRun" /\ tasks[t].plugin.details.id \notin DOMAIN cfg.linters) =>
            /\ tasks[t].run.outcome = "Err"
            /\ tasks[t].written = << >>

\* C7: a failing Generate call, or a Generate result that is no map of strings,
\* gives an Err outcome ("generation failed"), and the task writes nothing.
C7_GenerationFailureIsErr ==
    \A t \in DOMAIN tasks :
        tasks[t].run.generate \in {"callErr", "badResult"} =>
            /\ tasks[t].run.outcome = "Err"
            /\ tasks[t].written = << >>

Loaded(task, kinds) ==
    \E i \in DOMAIN task.run.events :
        task.run.events[i][1] = "load" /\ task.run.events[i][3] \in kinds

\* C8: when generate.lua or validate.lua cannot be read or parsed, the outcome
\* is the Err "unreadable plugin code" and no script code has run: no file's
\* top-level code, no function.
C8_UnreadableCodeRunsNothing ==
    \A t \in DOMAIN tasks :
        Loaded(tasks[t], {"unreadable", "parseErr"}) =>
            /\ tasks[t].run.outcome = "Err"
            /\ tasks[t].run.message = "Error reading plugin code"
            /\ ~Loaded(tasks[t], {"ok"})
            /\ ~Called(tasks[t], "Validate") /\ ~Called(tasks[t], "Generate")

Returned == {th \in Threads : callers[th].pc = "returned"}
Panicked == {th \in Threads : callers[th].pc = "panicked"}

\* C9: Plugin::list runs at most once, and every call of get_plugin_map that
\* returns gives the same index over the same plugin set.
C9_DiscoveryRunsAtMostOnce ==
    /\ listRuns <= 1
    /\ \A th \in Returned : callers[th].ret = PLUGIN_MAP

\* C9, amended: every run of Plugin::list but one ended in a panic (so at most
\* one completed, and it filled both cells); the index is the one built from
\* the plugin set; every call that returned gives that index.
C9_DiscoveryCompletesAtMostOnce ==
    /\ listRuns <= Cardinality(Panicked) + 1
    /\ listRuns > Cardinality(Panicked) => PLUGIN_MAP.init
    /\ PLUGIN_MAP.init => PLUGINS.init /\ PLUGIN_MAP.val = BuildMap(PLUGINS.val)
    /\ \A th \in Returned : PLUGIN_MAP.init /\ callers[th].ret = PLUGIN_MAP

\* C9's case: every thread has called get_plugin_map and has returned, after
\* one run of discovery that found plugins with extensions.
C9_Witness ==
    /\ Returned = Threads
    /\ listRuns = 1
    /\ PLUGIN_MAP.init /\ DOMAIN PLUGIN_MAP.val # {}

\* C10: no two plugins of the discovered set have the same id.
C10_UniqueIds ==
    PLUGINS.init =>
        \A p, q \in PLUGINS.val : p.details.id = q.details.id => p = q

\* The extensions a plugin declares, each counted once.
Declared(p) == {p.details.extensions[k] : k \in DOMAIN p.details.extensions}

Buckets(p) == {e \in DOMAIN PLUGIN_MAP.val : p \in PLUGIN_MAP.val[e]}

\* C11: once the registry is built, a plugin is in the bucket of extension e
\* exactly when it is in the plugin set and declares e; so every indexed
\* plugin is in the plugin set, no bucket is empty, and a plugin is in as many
\* buckets as it declares (distinct) extensions.
C11_IndexMatchesPluginSet ==
    PLUGIN_MAP.init =>
        /\ PLUGINS.init
        /\ \A e \in DOMAIN PLUGIN_MAP.val :
              /\ PLUGIN_MAP.val[e] # {}
              /\ PLUGIN_MAP.val[e] \subseteq PLUGINS.val
        /\ \A p \in PLUGINS.val :
              /\ \A e \in Exts : (e \in Buckets(p)) <=> (e \in Declared(p))
              /\ Cardinality(Buckets(p)) = Cardinality(Declared(p))

\* C11's case: the built index holds a plugin with two extensions in two
\* buckets next to a plugin with none, which is in the plugin set only.
C11_Witness ==
    /\ PLUGIN_MAP.init /\ PLUGINS.init
    /\ \E p, q \in PLUGINS.val :
          /\ Cardinality(Declared(p)) = 2 /\ Cardinality(Buckets(p)) = 2
          /\ Declared(q) = {} /\ Buckets(q) = {}

ValidBundles == {i \in DOMAIN dirs : dirs[i].kind = "ok"}

\* C12: after discovery has run over a readable lint directory, the plugin set
\* is there and holds exactly the plugins of the valid bundles, and the log
\* holds one Error entry per entry that is not a valid bundle.
C12_BadEntriesSkippedAndLogged ==
    (lintDir = "ok" /\ listRuns >= 1) =>
        /\ PLUGINS.init
        /\ PLUGINS.val = {Plugin(PluginDetails(dirs[i].id, dirs[i].extensions), i) :
                             i \in ValidBundles}
        /\ Len(logs) = Cardinality(DOMAIN dirs \ ValidBundles)
        /\ \A k \in DOMAIN logs : logs[k].kind = "Error"

TaskPlugins == {tasks[t].plugin : t \in DOMAIN tasks}
Activated == {p \in PLUGINS.val : p.details.id \in DOMAIN cfg.linters}

\* C13: after setup, the plugins that got a task are the discovered plugins
\* whose id is a section key of the configuration, whatever extensions they
\* declare (none included), and each of them got one task.
C13_SelectionByConfigSection ==
    (setupDone /\ ~crashed) =>
        /\ PLUGINS.init
        /\ TaskPlugins = Activated
        /\ Len(tasks) = Cardinality(Activated)

PathsOf(task) == {w[1] : w \in task.run.result}
ContentsAt(task, path) == CHOOSE c \in Contents : <<path, c>> \in task.run.result

\* Two tasks whose runs returned the same path with different contents, both
\* through with their closure.
Collide(t, u, path) ==
    /\ t # u
    /\ tasks[t].st = "done" /\ tasks[t].run.outcome = "Ok"
    /\ tasks[u].st = "done" /\ tasks[u].run.outcome = "Ok"
    /\ path \in PathsOf(tasks[t]) \cap PathsOf(tasks[u])
    /\ ContentsAt(tasks[t], path) # ContentsAt(tasks[u], path)

\* C14: when two tasks that returned the same path with different contents
\* have ended, each has appended its Success entry, the file holds the
\* contents of the task that wrote it last, and the log has no Error or Warn
\* entry.
C14_CollisionLastWriterWins ==
    \A t, u \in DOMAIN tasks : \A path \in Paths :
        Collide(t, u, path) =>
            /\ tasks[t].logged = "pushed" /\ tasks[u].logged = "pushed"
            /\ lastWriter[path] \in {t, u}
            /\ fs[path] = ContentsAt(tasks[lastWriter[path]], path)
            /\ \A k \in DOMAIN logs : logs[k].kind \notin {"Error", "Warn"}

IsPrefix(s, t) == Len(s) <= Len(t) /\ \A i \in DOMAIN s : t[i] = s[i]

\* C15: a step of clear_logs leaves the log empty; in every other step (an
\* append by a task or by discovery, a snapshot read, any other step) the log
\* before the step is a prefix of the log after it.
C15_AppendOnly ==
    [][IF ClearLogs THEN logs' = << >> ELSE IsPrefix(logs, logs')]_vars

\* C15's case: two tasks have appended their entries and clear_logs ran after
\* the first append, so the log holds the second entry only.
C15_Witness ==
    /\ Len(tasks) = 2
    /\ tasks[1].logged = "pushed" /\ tasks[2].logged = "pushed"
    /\ Len(logs) = 1

\* Every table a Validate was called with is the section of the task's own
\* plugin, with the field common set to the project's common section.
ViewsAreProjections ==
    \A t \in DOMAIN tasks :
        Called(tasks[t], "Validate") =>
            LET id == tasks[t].plugin.details.id
                a == tasks[t].run.validateArg
            IN /\ id \in DOMAIN cfg.linters
               /\ a["common"] = cfg.common
               /\ \A f \in Fields \ {"common"} : a[f] = cfg.linters[id][f]

\* C16: no step changes the configuration, and after every step each table a
\* Validate was called with is its plugin's section of that configuration
\* with the field common equal to the project's common section.
C16_ViewIsSectionPlusCommon ==
    [][cfg' = cfg /\ ViewsAreProjections']_vars

\* C16's case: two tasks of one run, for plugins with different sections, have
\* each called Validate with a table of their own.
C16_Witness ==
    \E t, u \in DOMAIN tasks :
        /\ Called(tasks[t], "Validate") /\ Called(tasks[u], "Validate")
        /\ tasks[t].run.validateArg = [opt |-> "o1", common |-> "k1"]
        /\ tasks[u].run.validateArg = [opt |-> "o2", common |-> "k1"]
        /\ cfg.linters[tasks[u].plugin.details.id]["common"] = "own"

\* C17: once its loop is over setup can return whatever the closures it
\* submitted are doing, and after it has returned a closure that is through
\* with its writes can still append its entry to the log.
C17_SetupDoesNotWait ==
    /\ (setupLoop.entered /\ setupLoop.rest = << >> /\ ~setupDone /\ ~crashed)
          => ENABLED SetupReturn
    /\ \A t \in DOMAIN tasks :
          (setupDone /\ ~crashed /\ logsInit /\ LoopDone(tasks[t]))
              => ENABLED (TaskLogSuccess(t) /\ Len(logs') = Len(logs) + 1)

\* C17's case: setup has returned while one closure is still queued and the
\* other is running, about to append its entry.
C17_Witness ==
    /\ setupDone /\ ~crashed /\ logsInit
    /\ \E t, u \in DOMAIN tasks :
          /\ tasks[t].st = "writing" /\ LoopDone(tasks[t])
          /\ tasks[u].st = "queued"

\* The closure unwound on a failed write of its result.
WriteFailedIn(task) == task.st = "panicked" /\ task.run.outcome = "Ok"

\* C18: after a write of some task has failed, no task does anything more: no
\* closure changes its state (runs, writes, logs) and no file changes.
C18_WriteErrorEndsTheProcess ==
    [][(\E t \in DOMAIN tasks : WriteFailedIn(tasks[t])) =>
          /\ \A u \in DOMAIN tasks : tasks'[u] = tasks[u]
          /\ fs' = fs]_vars

\* C18, amended: a failed write ends the closure it happens in and nothing
\* else. The step of the failure changes no other closure, no file, not the
\* log, and does not end the process; the closure then stays as it is (it
\* writes nothing more and logs nothing).
C18_WriteErrorEndsItsTaskOnly ==
    [][\A t \in DOMAIN tasks :
          /\ WriteFailedIn(tasks[t]) => tasks'[t] = tasks[t]
          /\ (tasks[t].st = "writing" /\ tasks'[t].st = "panicked") =>
                /\ \A u \in DOMAIN tasks \ {t} : tasks'[u] = tasks[u]
                /\ tasks'[t].logged = "none" /\ tasks'[t].written = tasks[t].written
                /\ fs' = fs /\ logs' = logs /\ crashed' = crashed]_vars

\* C18's case: one closure unwound on a failed write after its first file,
\* and the other closure of the run has written its file and logged success.
C18_Witness ==
    \E t, u \in DOMAIN tasks :
        /\ WriteFailedIn(tasks[t]) /\ Len(tasks[t].written) = 1
        /\ tasks[u].st = "done" /\ tasks[u].logged = "pushed"
        /\ Len(tasks[u].written) = 1
        /\ ~crashed

\* The section keys of the configuration that are no discovered plugin's id.
OrphanKeys == {k \in DOMAIN cfg.linters : \A p \in PLUGINS.val : p.details.id # k}

Selected == TaskPlugins \cup {setupLoop.rest[i] : i \in DOMAIN setupLoop.rest}

\* C19: once setup has made its selection, no closure is (or will be)
\* submitted for a section key that is no discovered plugin's id, no log entry
\* names such a key, and the selection is the one the configuration without
\* those keys gives.
C19_UnknownSectionIsIgnored ==
    (setupLoop.entered /\ ~crashed) =>
        /\ \A p \in Selected : p.details.id \notin OrphanKeys /\ p \in PLUGINS.val
        /\ \A k \in DOMAIN logs : logs[k].message[2] \notin OrphanKeys
        /\ Selected = {p \in UNION {PLUGIN_MAP.val[e] : e \in DOMAIN PLUGIN_MAP.val} :
                          p.details.id \in DOMAIN cfg.linters \ OrphanKeys}

\* C19's case: the configuration has a section for the id of no plugin next to
\* the sections of two plugins, whose two tasks have run and logged success.
C19_Witness ==
    /\ setupDone /\ ~crashed
    /\ UnknownId \in OrphanKeys
    /\ Len(tasks) = 2
    /\ \A t \in DOMAIN tasks : tasks[t].st = "done" /\ tasks[t].logged = "pushed"
    /\ Len(logs) = 2

\* The two bundle layouts: two script files with one function each, or one
\* script file with both functions (and no second file).
BothDefs == [kind |-> "ok", defs |-> {"Validate", "Generate"}]
Split(files) ==
    /\ files.generateLua = [kind |-> "ok", defs |-> {"Generate"}]
    /\ files.validateLua = [kind |-> "ok", defs |-> {"Validate"}]
Combined(files) ==
    \/ files.generateLua = BothDefs /\ files.validateLua.kind = "unreadable"
    \/ files.validateLua = BothDefs /\ files.generateLua.kind = "unreadable"

\* C20: a run over a bundle of either layout, for a plugin that has its
\* section, reaches the Validate call, and from there on goes by what the
\* functions do: Generate is called exactly when Validate returned true.
C20_BothLayoutsRunTheProtocol ==
    \A t \in DOMAIN tasks :
        ( /\ tasks[t].run.outcome # "NotRun"
          /\ tasks[t].plugin.details.id \in DOMAIN cfg.linters
          /\ Split(tasks[t].files) \/ Combined(tasks[t].files) ) =>
            /\ Called(tasks[t], "Validate")
            /\ Called(tasks[t], "Generate") <=> tasks[t].run.validate = "true"

Submitted(t) == t \in DOMAIN tasks

\* C21: under the pool's fair scheduling, every closure that setup submitted
\* eventually is through with its Success or its Error entry appended to
\* the log.
C21_EveryTaskEventuallyLogs ==
    \A t \in 1..NDirs :
        Submitted(t) ~> (Submitted(t) /\ tasks[t].st = "done" /\ tasks[t].logged = "pushed")

\* C22: at most as many closures as the pool has workers are between the
\* start of Plugin::run and their log entry; a closure that is still queued
\* has run no script, written no file and logged nothing.
C22_AtMostPoolSizeRunning ==
    /\ Cardinality(Running) <= workers
    /\ \A t \in DOMAIN tasks :
          tasks[t].st = "queued" =>
              /\ tasks[t].run.outcome = "NotRun" /\ tasks[t].run.events = << >>
              /\ tasks[t].written = << >> /\ tasks[t].logged = "none"

\* C22's case: a pool of one worker with two closures submitted: one is
\* writing its files, the other waits in the queue.
C22_Witness ==
    /\ workers = 1 /\ Len(tasks) = 2
    /\ tasks[1].st = "writing" /\ Len(tasks[1].written) = 1
    /\ tasks[2].st = "queued"

LoadedOk(task, file) ==
    \E i \in DOMAIN task.run.events : task.run.events[i] = <<"load", file, "ok">>

\* The globals the scripts of a task's own bundle define.
OwnGenerateDefs(task) == task.files.generateLua.defs
OwnDefs(task) == task.files.generateLua.defs \cup task.files.validateLua.defs

\* C23: what a run finds in its interpreter is what its own bundle put there
\* (and the helpers), whatever the runs before it defined: a function that
\* is called is defined by the task's own scripts, and the lookup of Generate
\* or Validate fails exactly when the own scripts do not define it.
C23_InterpreterIsolation ==
    \A t \in DOMAIN tasks :
        /\ tasks[t].globals \subseteq HelperGlobals \cup OwnDefs(tasks[t])
        /\ Called(tasks[t], "Generate") => "Generate" \in OwnGenerateDefs(tasks[t])
        /\ Called(tasks[t], "Validate") => "Validate" \in OwnDefs(tasks[t])
        /\ LoadedOk(tasks[t], "generate.lua") =>
              (tasks[t].run.message = "unwrap: no global Generate"
                  <=> "Generate" \notin OwnGenerateDefs(tasks[t]))
        /\ LoadedOk(tasks[t], "validate.lua") =>
              (tasks[t].run.message = "unwrap: no global Validate"
                  <=> "Validate" \notin OwnDefs(tasks[t]))

\* C23's case: the first closure's scripts defined Generate and Validate and
\* both were called; the second closure, run after it with a generate.lua
\* that defines nothing, found no Generate.
C23_Witness ==
    /\ Len(tasks) = 2
    /\ Called(tasks[1], "Validate") /\ Called(tasks[1], "Generate")
    /\ {"Validate", "Generate"} \subseteq tasks[1].globals
    /\ LoadedOk(tasks[2], "generate.lua") /\ OwnGenerateDefs(tasks[2]) = {}
    /\ tasks[2].run.message = "unwrap: no global Generate"

\* C24: the log holds one entry for every call of add_log since the last
\* clear_logs, and no closure's add_log left the log without its entry.
C24_AddLogNeverDropped ==
    /\ Len(logs) = addLogCalls
    /\ \A t \in DOMAIN tasks : tasks[t].logged # "dropped"

\* C25: every plugin of the discovered set comes from a bundle whose own
\* details.lua defines Details, and carries the descriptor that Details
\* returns.
C25_DescriptorIsOwn ==
    PLUGINS.init =>
        \A p \in PLUGINS.val :
            /\ dirs[p.path].kind = "ok"
            /\ p.details = PluginDetails(dirs[p.path].id, dirs[p.path].extensions)

\* C26: the table Generate is called with is the table Validate was called
\* with, as it was projected from the configuration: the plugin's section
\* with the field common.
C26_GenerateGetsTheProjectedView ==
    \A t \in DOMAIN tasks :
        Called(tasks[t], "Generate") =>
            /\ tasks[t].run.generateArg = tasks[t].run.validateArg
            /\ tasks[t].run.generateArg["common"] = cfg.common
            /\ \A f \in Fields \ {"common"} :
                  tasks[t].run.generateArg[f] = cfg.linters[tasks[t].plugin.details.id][f]

\* The closure left the loop over its result with pairs still unwritten: one
\* of its writes failed.
LeftWithPending(task) ==
    task.run.outcome = "Ok" /\ task.st # "writing" /\ task.pending # {}

\* C27: a task one of whose writes failed has appended no log entry; the
\* writes before the failed one are done and stay: every pair of the result
\* is either written or still pending, and a file it wrote holds what it
\* wrote unless a later write of another task replaced it.
C27_PartialWritesStayUnreported ==
    \A t \in DOMAIN tasks :
        LeftWithPending(tasks[t]) =>
            /\ tasks[t].logged = "none"
            /\ tasks[t].st = "panicked"
            /\ {tasks[t].written[k] : k \in DOMAIN tasks[t].written} \cup tasks[t].pending
                  = tasks[t].run.result
            /\ \A k \in DOMAIN tasks[t].written :
                  /\ fs[tasks[t].written[k][1]] # NoFile
                  /\ lastWriter[tasks[t].written[k][1]] = t
                        => fs[tasks[t].written[k][1]] = tasks[t].written[k][2]

\* C27's case: the second write of a task's two failed; the first file has
\* its new contents, and the other task has meanwhile logged its success.
C27_Witness ==
    \E t, u \in DOMAIN tasks :
        /\ LeftWithPending(tasks[t])
        /\ Len(tasks[t].written) = 1 /\ Cardinality(tasks[t].pending) = 1
        /\ fs[tasks[t].written[1][1]] = tasks[t].written[1][2]
        /\ tasks[u].logged = "pushed"
        /\ Len(logs) = 1

\* What the claim calls a home-relative segment: "~", or one that starts
\* with "~/".
HomeSegment(path) ==
    path = <<"~">> \/ (Len(path) >= 2 /\ path[1] = "~" /\ path[2] = "/")
Anchor(path) == IsAbsolute(path) \/ HomeSegment(path)

\* C28: when a call of path.resolve has returned (the user having a home
\* directory if a segment asks for it): with no segments it gave
\* the current directory; it gave what the segments from the last absolute or
\* home-relative one on give alone; with a relative first segment and no
\* absolute or home-relative one it gave a path under the current directory
\* that goes on with that segment; and when the last segment is "~" or starts
\* with "~/" it gave the home directory, followed by the rest of the segment.
C28_PathResolveFollowsNode ==
    LET c == resolveCall
        n == Len(c.paths)
        Out(ps) == PathResolve(ps, c.homeKnown, c.exists)
    IN (c.done /\ c # NoCall
           /\ (c.homeKnown \/ \A k \in 1..n : ~HomeSegment(c.paths[k]))) =>
        /\ n = 0 => c.out = Cwd
        /\ \A k \in 1..n :
              (Anchor(c.paths[k]) /\ \A j \in (k + 1)..n : ~Anchor(c.paths[j]))
                  => c.out = Out(SubSeq(c.paths, k, n))
        /\ (n > 0 /\ \A k \in 1..n : ~Anchor(c.paths[k])) =>
              /\ IsPrefix(Cwd, c.out)
              /\ c.paths[1] # << >> => IsPrefix(Cwd \o <<"/">> \o c.paths[1], c.out)
        /\ (n > 0 /\ HomeSegment(c.paths[n])) =>
              /\ IsPrefix(HomeDir, c.out)
              /\ c.out = IF Len(c.paths[n]) > 2
                         THEN HomeDir \o <<"/">> \o SubSeq(c.paths[n], 3, Len(c.paths[n]))
                         ELSE HomeDir

====
